---- MODULE Spec2Model ----
(***************************************************************************)
(* Travel destination recommender: the online scorer and lookup API of     *)
(* app.py and the offline hybrid index builder of model_train.py.          *)
(*                                                                         *)
(* Text is a sequence of one-character strings.  A value that is not text  *)
(* (Python None, a pandas NaN) is the one-element sequence None.           *)
(* A float is an exact fraction [n, d] in lowest terms with d > 0.         *)
(***************************************************************************)
EXTENDS Integers, Sequences, FiniteSets, TLC

VARIABLES
    destinations_df,        \* app.py: the destination table, a sequence of rows
    users_df,               \* app.py: the user table, a sequence of rows
    request,                \* app.py: the request being served
    response,               \* app.py: the response to it
    query_categories,       \* calculate_similarity_score: first argument
    destination_categories, \* calculate_similarity_score: second argument
    score,                  \* calculate_similarity_score: returned value
    destinations,           \* model_train.py: the destination table
    unique_preferences,     \* model_train.py: the category vocabulary
    content_similarity,     \* model_train.py
    category_match_matrix,  \* model_train.py
    hybrid_similarity,      \* model_train.py
    models_saved,           \* model_train.py: the pickled artifacts
    pc                      \* model_train.py: position in the script

vars == <<destinations_df, users_df, request, response,
          query_categories, destination_categories, score,
          destinations, unique_preferences, content_similarity,
          category_match_matrix, hybrid_similarity, models_saved, pc>>

appVars == <<destinations_df, users_df, request, response>>
scoreVars == <<query_categories, destination_categories, score>>
trainVars == <<destinations, unique_preferences, content_similarity,
               category_match_matrix, hybrid_similarity, models_saved, pc>>

----------------------------------------------------------------------------
(* Bounds *)

\* longest text handed to calculate_similarity_score on its own
MaxLen == 3
\* largest destination table of the application
MaxDest == 11
\* largest destination table of the builder
MaxTrainDest == 2

----------------------------------------------------------------------------
(* Values *)

None == <<"None">>

\* no request in hand, no response produced yet
NoRequest == [route |-> "none"]
NoResponse == [kind |-> "none"]

Range(f) == {f[i] : i \in DOMAIN f}

Min(a, b) == IF a <= b THEN a ELSE b

RECURSIVE GCD(_, _)
GCD(a, b) == IF b = 0 THEN a ELSE GCD(b, a % b)

\* the float n/d
Frac(n, d) == LET g == GCD(n, d) IN [n |-> n \div g, d |-> d \div g]

Zero == Frac(0, 1)
One == Frac(1, 1)

FracLess(x, y) == x.n * y.d < y.n * x.d
FracLeq(x, y) == x.n * y.d <= y.n * x.d
FracAdd(x, y) == Frac(x.n * y.d + y.n * x.d, x.d * y.d)
FracSub(x, y) == Frac(x.n * y.d - y.n * x.d, x.d * y.d)
FracMul(x, y) == Frac(x.n * y.n, x.d * y.d)
FracDiv(x, y) == Frac(x.n * y.d, x.d * y.n)

----------------------------------------------------------------------------
(* str.lower, str.strip, str.split *)

LowerChar(c) ==
    CASE c = "A" -> "a"
      [] c = "B" -> "b"
      [] c = "C" -> "c"
      [] OTHER -> c

lower(s) == [i \in 1..Len(s) |-> LowerChar(s[i])]

IsSpace(c) == c = " "

RECURSIVE lstrip(_)
lstrip(s) == IF s # <<>> /\ IsSpace(Head(s)) THEN lstrip(Tail(s)) ELSE s

RECURSIVE rstrip(_)
rstrip(s) ==
    IF s # <<>> /\ IsSpace(s[Len(s)]) THEN rstrip(SubSeq(s, 1, Len(s) - 1)) ELSE s

strip(s) == rstrip(lstrip(s))

\* s.split(','): the pieces between the commas, empty pieces included, so
\* that ''.split(',') is [''] and 'a,'.split(',') is ['a', '']
RECURSIVE split(_)
split(s) ==
    IF \E i \in 1..Len(s) : s[i] = ","
    THEN LET i == CHOOSE k \in 1..Len(s) :
                      s[k] = "," /\ \A j \in 1..(k - 1) : s[j] # ","
         IN <<SubSeq(s, 1, i - 1)>> \o split(SubSeq(s, i + 1, Len(s)))
    ELSE <<s>>

----------------------------------------------------------------------------
(* app.py: calculate_similarity_score *)

\* set(cat.strip().lower() for cat in text.split(','))
CategorySet(text) == {lower(strip(cat)) : cat \in Range(split(text))}

\* the Jaccard index instead of the directional overlap
JaccardScore(query, dest) ==
    IF query = None \/ dest = None
    THEN Zero
    ELSE LET query_cats == CategorySet(query)
             dest_cats == CategorySet(dest)
         IN Frac(Cardinality(query_cats \cap dest_cats),
                 Cardinality(query_cats \cup dest_cats))

\* an argument without .split (None, NaN) raises inside the try and the
\* except branch returns 0
calculate_similarity_score(query, dest) ==
    IF query = None \/ dest = None
    THEN Zero
    ELSE LET query_cats == CategorySet(query)
             dest_cats == CategorySet(dest)
             common_cats == query_cats \cap dest_cats
         IN IF query_cats = {}
            THEN Zero
            ELSE Frac(Cardinality(common_cats), Cardinality(query_cats))

----------------------------------------------------------------------------
(* Specification of calculate_similarity_score alone *)

ScoreChars == {"a", "A", "b", " ", ","}

TextsUpTo(chars, n) == UNION {[1..k -> chars] : k \in 0..n}

ScoreInputs == TextsUpTo(ScoreChars, MaxLen) \cup {None}

NotCalled == [n |-> 0, d |-> 0]

AppIdle ==
    /\ destinations_df = <<>>
    /\ users_df = <<>>
    /\ request = NoRequest
    /\ response = NoResponse

TrainIdle ==
    /\ destinations = <<>>
    /\ unique_preferences = <<>>
    /\ content_similarity = <<>>
    /\ category_match_matrix = <<>>
    /\ hybrid_similarity = <<>>
    /\ models_saved = <<>>
    /\ pc = "none"

ScoreInit ==
    /\ query_categories \in ScoreInputs
    /\ destination_categories \in ScoreInputs
    /\ score = NotCalled
    /\ AppIdle
    /\ TrainIdle

CallScore ==
    /\ score = NotCalled
    /\ score' = calculate_similarity_score(query_categories, destination_categories)
    /\ UNCHANGED <<query_categories, destination_categories>>
    /\ UNCHANGED appVars
    /\ UNCHANGED trainVars

ScoreNext == CallScore

SpecScore == ScoreInit /\ [][ScoreNext]_vars

----------------------------------------------------------------------------
(* app.py: the catalog loaded at startup *)

DestName(i) == IF i <= 3 THEN <<"A", "B", "C">>[i] ELSE "D" \o ToString(i)

\* Category texts of the destination file.  pandas reads an empty cell as
\* NaN and line 25 raises on a NaN Category, so every Category that survives
\* startup is a non-empty text.
CategoryTexts ==
    { <<"B", ",", "A">>,
      <<"B", ",", "C">>,
      <<" ", "b", " ", ",">> }

PopularityValues == {Frac(1, 2), Frac(9, 10)}

StateValues == {"S1", "S2"}

RowKinds ==
    [Category : CategoryTexts, PopularityScore : PopularityValues, State : StateValues]

DestinationRow(i, kind) ==
    [Name |-> DestName(i),
     District |-> "District",
     State |-> kind.State,
     Category |-> kind.Category,
     BestTimeToVisit |-> "Winter",
     PopularityScore |-> kind.PopularityScore]

\* the catalog of the ranking scenario: A{Beach,Adventure; 0.9},
\* B{Beach,Culture; 0.5}, C{Culture; 0.8}, one State
ScenarioCatalog ==
    << DestinationRow(1, [Category |-> <<"B", ",", "A">>,
                          PopularityScore |-> Frac(9, 10), State |-> "S1"]),
       DestinationRow(2, [Category |-> <<"B", ",", "C">>,
                          PopularityScore |-> Frac(1, 2), State |-> "S1"]),
       DestinationRow(3, [Category |-> <<"C">>,
                          PopularityScore |-> Frac(4, 5), State |-> "S1"]) >>

\* a table of n rows whose attributes repeat the chosen kinds in turn
Catalog(n, kinds) ==
    [i \in 1..n |-> DestinationRow(i, kinds[((i - 1) % Len(kinds)) + 1])]

CatalogSizes == (1..2) \cup {MaxDest}

UserRow(id, prefs) ==
    [UserID |-> id,
     Name |-> "User",
     Gender |-> "F",
     Location |-> "City",
     TravelPreferences |-> prefs,
     NumberOfAdults |-> 2,
     NumberOfChildren |-> 0]

\* TravelPreferences of user 3 is an empty cell, read as NaN
UserTables ==
    { << UserRow(1, <<"b", ",", "a">>),
         UserRow(2, <<" ", "C", " ", ",", "b">>),
         UserRow(3, None) >> }

----------------------------------------------------------------------------
(* app.py: requests *)

NoValue == [type |-> "none"]
JsonStr(s) == [type |-> "str", v |-> s]
JsonInt(i) == [type |-> "int", v |-> i]

\* Python truthiness of a request value
Truthy(x) ==
    CASE x.type = "none" -> FALSE
      [] x.type = "str" -> x.v # ""
      [] x.type = "int" -> x.v # 0
      [] x.type = "text" -> x.v # <<>>

\* str(x)
Str(x) == IF x.type = "int" THEN ToString(x.v) ELSE x.v

JsonText(s) == [type |-> "text", v |-> s]

QueryNames == {"A", "B", "C", DestName(MaxDest), "Nonexistent"}

QueryUserIds == {JsonInt(1), JsonStr("2"), JsonInt(3), JsonStr("9")}

QueryPreferences ==
    { JsonText(<<"b">>),
      JsonText(<<"a", ",", " ", "B">>),
      JsonText(<<"c", ",", " ">>),
      NoValue }

QueryStates == {NoValue, JsonStr(""), JsonStr("S1")}

RecommendationBodies ==
    {[type |-> "destination", destination |-> JsonStr(nm)] : nm \in QueryNames}
    \cup {[type |-> "destination", destination |-> NoValue]}
    \cup {[type |-> "user", userId |-> id] : id \in QueryUserIds \cup {NoValue}}
    \cup {[type |-> "custom", preferences |-> p, state |-> st] :
              p \in QueryPreferences, st \in QueryStates}
    \cup {[type |-> "bogus"]}

NoData == [type |-> "nodata"]

Requests ==
    {[route |-> "get_destination_details", name |-> JsonStr(nm)] : nm \in QueryNames}
    \cup {[route |-> "get_destination_details", name |-> NoValue]}
    \cup {[route |-> "get_user_details", id |-> JsonStr(Str(id))] : id \in QueryUserIds}
    \cup {[route |-> "get_user_details", id |-> NoValue]}
    \cup {[route |-> "get_recommendations", data |-> d] :
              d \in RecommendationBodies \cup {NoData}}

----------------------------------------------------------------------------
(* app.py: responses *)

JsonError(message, status) == [kind |-> "error", status |-> status, error |-> message]

JsonObject(body) == [kind |-> "object", status |-> 200, body |-> body]

JsonRecommendations(recs) ==
    [kind |-> "recommendations", status |-> 200, recommendations |-> recs]

----------------------------------------------------------------------------
(* app.py: ranking *)

TopN == 10

\* rows of a table, in table order, that satisfy keep
FilterRows(rows, keep(_)) == SelectSeq(rows, keep)

recommendation(dest, match) ==
    [Name |-> dest.Name,
     Category |-> dest.Category,
     District |-> dest.District,
     State |-> dest.State,
     BestTimeToVisit |-> dest.BestTimeToVisit,
     MatchScore |-> match,
     PopularityScore |-> dest.PopularityScore]

\* the sort key (MatchScore, PopularityScore), compared as Python tuples
KeyLess(x, y) ==
    \/ FracLess(x.MatchScore, y.MatchScore)
    \/ /\ x.MatchScore = y.MatchScore
       /\ FracLess(x.PopularityScore, y.PopularityScore)

\* x put into a list sorted in descending key order, after every entry
\* whose key is not less than its own (list.sort is stable, also reversed)
RECURSIVE InsertDesc(_, _)
InsertDesc(sorted, x) ==
    IF sorted = <<>> THEN <<x>>
    ELSE IF KeyLess(Head(sorted), x) THEN <<x>> \o sorted
    ELSE <<Head(sorted)>> \o InsertDesc(Tail(sorted), x)

RECURSIVE SortDesc(_)
SortDesc(recs) ==
    IF recs = <<>> THEN <<>>
    ELSE InsertDesc(SortDesc(SubSeq(recs, 1, Len(recs) - 1)), recs[Len(recs)])

\* sorted on MatchScore alone
RECURSIVE InsertByMatch(_, _)
InsertByMatch(sorted, x) ==
    IF sorted = <<>> THEN <<x>>
    ELSE IF FracLess(Head(sorted).MatchScore, x.MatchScore) THEN <<x>> \o sorted
    ELSE <<Head(sorted)>> \o InsertByMatch(Tail(sorted), x)

RECURSIVE SortByMatchOnly(_)
SortByMatchOnly(recs) ==
    IF recs = <<>> THEN <<>>
    ELSE InsertByMatch(SortByMatchOnly(SubSeq(recs, 1, Len(recs) - 1)), recs[Len(recs)])

\* recommendations.sort(key=..., reverse=True)
sort_recommendations(recs) == SortDesc(recs)

\* one entry too many
TruncateOneMore(recs) == SubSeq(recs, 1, Min(TopN + 1, Len(recs)))

\* recommendations[:10]
truncate(recs) == SubSeq(recs, 1, Min(TopN, Len(recs)))

\* the loop body shared by the three modes: score, keep if score > 0
scored(rows, query) ==
    LET pairs == [i \in 1..Len(rows) |->
                     recommendation(rows[i],
                                    calculate_similarity_score(query, rows[i].Category))]
    IN SelectSeq(pairs, LAMBDA r : FracLess(Zero, r.MatchScore))

\* the two arguments of the score exchanged
ByDestinationSwapped(destination_name) ==
    LET selected == SelectSeq(destinations_df, LAMBDA d : d.Name = destination_name)
    IN IF selected = <<>>
       THEN <<>>
       ELSE LET others == SelectSeq(destinations_df,
                                    LAMBDA d : d.Name # destination_name)
                pairs == [i \in 1..Len(others) |->
                             recommendation(others[i],
                                 calculate_similarity_score(others[i].Category,
                                                            selected[1].Category))]
            IN truncate(sort_recommendations(
                   SelectSeq(pairs, LAMBDA r : FracLess(Zero, r.MatchScore))))

get_recommendations_by_destination(destination_name) ==
    LET selected == SelectSeq(destinations_df, LAMBDA d : d.Name = destination_name)
    IN IF selected = <<>>
       THEN <<>>
       ELSE LET selected_dest == selected[1]
                others == SelectSeq(destinations_df,
                                    LAMBDA d : d.Name # destination_name)
            IN truncate(sort_recommendations(scored(others, selected_dest.Category)))

get_recommendations_by_user(user_id) ==
    LET user == SelectSeq(users_df,
                          LAMBDA u : ToString(u.UserID) = Str(user_id))
    IN IF user = <<>>
       THEN <<>>
       ELSE truncate(sort_recommendations(
                scored(destinations_df, user[1].TravelPreferences)))

\* the State filter left out
CustomUnfiltered(preferences, state) ==
    LET query == IF preferences.type = "text" THEN preferences.v ELSE None
    IN truncate(sort_recommendations(scored(destinations_df, query)))

\* preferences that are not text have no .split: every score is 0
get_custom_recommendations(preferences, state) ==
    LET filtered_df ==
            IF Truthy(state)
            THEN SelectSeq(destinations_df, LAMBDA d : d.State = state.v)
            ELSE destinations_df
        query == IF preferences.type = "text" THEN preferences.v ELSE None
    IN truncate(sort_recommendations(scored(filtered_df, query)))

----------------------------------------------------------------------------
(* app.py: the route handlers *)

\* the first row taken without the emptiness test: IndexError, caught, 500
DestinationDetailsUnchecked(name) ==
    IF ~Truthy(name)
    THEN JsonError("Destination name is required", 400)
    ELSE LET dest == SelectSeq(destinations_df, LAMBDA d : d.Name = name.v)
         IN IF dest = <<>>
            THEN JsonError("Failed to retrieve destination details", 500)
            ELSE JsonObject([District |-> dest[1].District,
                             State |-> dest[1].State,
                             Category |-> dest[1].Category,
                             BestTimeToVisit |-> dest[1].BestTimeToVisit])

get_destination_details(name) ==
    IF ~Truthy(name)
    THEN JsonError("Destination name is required", 400)
    ELSE LET dest == SelectSeq(destinations_df, LAMBDA d : d.Name = name.v)
         IN IF dest = <<>>
            THEN JsonError("Destination not found", 404)
            ELSE LET dest_data == dest[1]
                 IN JsonObject([District |-> dest_data.District,
                                State |-> dest_data.State,
                                Category |-> dest_data.Category,
                                BestTimeToVisit |-> dest_data.BestTimeToVisit])

get_user_details(user_id) ==
    IF ~Truthy(user_id)
    THEN JsonError("User ID is required", 400)
    ELSE LET user == SelectSeq(users_df,
                               LAMBDA u : ToString(u.UserID) = Str(user_id))
         IN IF user = <<>>
            THEN JsonError("User not found", 404)
            ELSE LET user_data == user[1]
                 IN JsonObject([Name |-> user_data.Name,
                                Gender |-> user_data.Gender,
                                Location |-> user_data.Location,
                                TravelPreferences |-> user_data.TravelPreferences,
                                NumberOfAdults |-> user_data.NumberOfAdults,
                                NumberOfChildren |-> user_data.NumberOfChildren])

get_recommendations(data) ==
    IF data = NoData
    THEN JsonError("No data provided", 400)
    ELSE CASE data.type = "destination" ->
                  IF ~Truthy(data.destination)
                  THEN JsonError("Destination is required", 400)
                  ELSE JsonRecommendations(
                           get_recommendations_by_destination(data.destination.v))
           [] data.type = "user" ->
                  IF ~Truthy(data.userId)
                  THEN JsonError("User ID is required", 400)
                  ELSE JsonRecommendations(get_recommendations_by_user(data.userId))
           [] data.type = "custom" ->
                  IF ~Truthy(data.preferences)
                  THEN JsonError("Preferences are required", 400)
                  ELSE JsonRecommendations(
                           get_custom_recommendations(data.preferences, data.state))
           [] OTHER -> JsonError("Invalid search type", 400)

----------------------------------------------------------------------------
(* Specification of the application *)

ScoreIdle ==
    /\ query_categories = None
    /\ destination_categories = None
    /\ score = NotCalled

\* the state once the module has been imported: both tables loaded
Init ==
    /\ \/ \E n \in CatalogSizes : \E kinds \in [1..Min(n, 3) -> RowKinds] :
              destinations_df = Catalog(n, kinds)
       \/ destinations_df = ScenarioCatalog
    /\ users_df \in UserTables
    /\ request = NoRequest
    /\ response = NoResponse
    /\ ScoreIdle
    /\ TrainIdle

\* flask hands a request to its route
Receive ==
    /\ request = NoRequest
    /\ \E r \in Requests : request' = r
    /\ UNCHANGED <<destinations_df, users_df, response>>
    /\ UNCHANGED scoreVars
    /\ UNCHANGED trainVars

\* the value the route returned goes back to the client
Reply ==
    /\ response # NoResponse
    /\ request' = NoRequest
    /\ response' = NoResponse
    /\ UNCHANGED <<destinations_df, users_df>>
    /\ UNCHANGED scoreVars
    /\ UNCHANGED trainVars

DestinationDetails ==
    /\ request.route = "get_destination_details"
    /\ response = NoResponse
    /\ response' = get_destination_details(request.name)
    /\ UNCHANGED <<destinations_df, users_df, request>>
    /\ UNCHANGED scoreVars
    /\ UNCHANGED trainVars

UserDetails ==
    /\ request.route = "get_user_details"
    /\ response = NoResponse
    /\ response' = get_user_details(request.id)
    /\ UNCHANGED <<destinations_df, users_df, request>>
    /\ UNCHANGED scoreVars
    /\ UNCHANGED trainVars

\* the handler reorders the shared table in place
RecommendationsInPlace ==
    /\ request.route = "get_recommendations"
    /\ response = NoResponse
    /\ response' = get_recommendations(request.data)
    /\ destinations_df' = [i \in 1..Len(destinations_df) |->
                               destinations_df[Len(destinations_df) + 1 - i]]
    /\ UNCHANGED <<users_df, request>>
    /\ UNCHANGED scoreVars
    /\ UNCHANGED trainVars

Recommendations ==
    /\ request.route = "get_recommendations"
    /\ response = NoResponse
    /\ response' = get_recommendations(request.data)
    /\ UNCHANGED <<destinations_df, users_df, request>>
    /\ UNCHANGED scoreVars
    /\ UNCHANGED trainVars

Next ==
    \/ Receive
    \/ Reply
    \/ DestinationDetails
    \/ UserDetails
    \/ Recommendations

Spec == Init /\ [][Next]_vars

----------------------------------------------------------------------------
(* The category set of a text, stated without the code's split and strip *)

SetMin(S) == CHOOSE x \in S : \A y \in S : x <= y
SetMax(S) == CHOOSE x \in S : \A y \in S : y <= x

\* t without its surrounding blanks, in lower case
Normal(t) ==
    LET solid == {k \in 1..Len(t) : t[k] # " "}
    IN IF solid = {}
       THEN <<>>
       ELSE [k \in 1..(SetMax(solid) - SetMin(solid) + 1) |->
                LowerChar(t[SetMin(solid) + k - 1])]

\* where the comma-free stretches of s begin: at its start and after commas
Starts(s) == {i \in 1..(Len(s) + 1) : i = 1 \/ s[i - 1] = ","}

\* where the stretch that begins at i ends: before the next comma, or with s
StretchEnd(s, i) == SetMin({j \in (i - 1)..Len(s) : j = Len(s) \/ s[j + 1] = ","})

TokensOf(s) == {Normal(SubSeq(s, i, StretchEnd(s, i))) : i \in Starts(s)}

\* every token of the field is empty: the field is absent, empty or blank
Blank(s) == s = None \/ TokensOf(s) \subseteq {<<>>}

\* |Q n D| / |Q| over the token sets, 0 for an absent field
Overlap(q, d) ==
    IF q = None \/ d = None THEN Zero
    ELSE LET Q == TokensOf(q)
             D == TokensOf(d)
         IN IF Q = {} THEN Zero
            ELSE Frac(Cardinality(Q \cap D), Cardinality(Q))

----------------------------------------------------------------------------
(* Claims about calculate_similarity_score, under SpecScore *)

Called == score # NotCalled

\* the same tokens in the opposite order, in the other case, padded with blanks
RECURSIVE Joined(_)
Joined(pieces) ==
    IF Len(pieces) = 1 THEN pieces[1]
    ELSE pieces[1] \o <<",">> \o Joined(Tail(pieces))

Reversed(q) == [i \in 1..Len(q) |-> q[Len(q) + 1 - i]]

SwapCase(c) ==
    CASE c = "a" -> "A"
      [] c = "A" -> "a"
      [] c = "b" -> "B"
      [] c = "B" -> "b"
      [] OTHER -> c

Disguised(q) ==
    LET turned == Joined(Reversed(split(q)))
    IN <<" ">> \o [i \in 1..Len(turned) |-> SwapCase(turned[i])] \o <<" ">>

C2_BlankScoresZero ==
    (Called /\ (Blank(query_categories) \/ Blank(destination_categories))) =>
        score = Zero

----------------------------------------------------------------------------
(* Claims about the application, under Spec *)

IsRecs == response.kind = "recommendations"

Recs == response.recommendations

Mode == IF request.route = "get_recommendations" THEN request.data.type ELSE "none"

Rows == Range(destinations_df)

RowNamed(name) == CHOOSE d \in Rows : d.Name = name

UserWithId(id) == CHOOSE u \in Range(users_df) : ToString(u.UserID) = Str(id)

Resolved ==
    CASE Mode = "destination" ->
             \E d \in Rows : d.Name = request.data.destination.v
      [] Mode = "user" ->
             \E u \in Range(users_df) : ToString(u.UserID) = Str(request.data.userId)
      [] OTHER -> TRUE

\* the query side of the score
QueryText ==
    CASE Mode = "destination" -> RowNamed(request.data.destination.v).Category
      [] Mode = "user" -> UserWithId(request.data.userId).TravelPreferences
      [] Mode = "custom" -> request.data.preferences.v

\* the destinations the query is scored against, by row number
Candidates ==
    LET all == 1..Len(destinations_df)
    IN CASE ~Resolved -> {}
         [] Mode = "destination" ->
                {i \in all : destinations_df[i].Name # request.data.destination.v}
         [] Mode = "user" -> all
         [] Mode = "custom" ->
                IF Truthy(request.data.state)
                THEN {i \in all : destinations_df[i].State = request.data.state.v}
                ELSE all

Returned == {Recs[i].Name : i \in 1..Len(Recs)}

\* C3: in every mode the list is non-increasing in (MatchScore,
\* PopularityScore): of two neighbours the first has the greater MatchScore,
\* or the same MatchScore and a PopularityScore not below the second's; the
\* custom query "beach" over the scenario catalog returns [A, B].
C3_SortedDescending ==
    IsRecs =>
        /\ \A i \in 1..(Len(Recs) - 1) :
              \/ FracLess(Recs[i + 1].MatchScore, Recs[i].MatchScore)
              \/ /\ Recs[i].MatchScore = Recs[i + 1].MatchScore
                 /\ FracLeq(Recs[i + 1].PopularityScore, Recs[i].PopularityScore)
        /\ ( /\ destinations_df = ScenarioCatalog
             /\ Mode = "custom"
             /\ request.data.preferences = JsonText(<<"b">>)
             /\ ~Truthy(request.data.state) )
           => [i \in 1..Len(Recs) |-> Recs[i].Name] = <<"A", "B">>

\* a list with a descent in MatchScore and a tie broken by PopularityScore
C3_Witness ==
    /\ IsRecs
    /\ Len(Recs) >= 3
    /\ FracLess(Recs[Len(Recs)].MatchScore, Recs[1].MatchScore)
    /\ \E i \in 1..(Len(Recs) - 1) :
          /\ Recs[i].MatchScore = Recs[i + 1].MatchScore
          /\ FracLess(Recs[i + 1].PopularityScore, Recs[i].PopularityScore)
          /\ \E j \in 1..Len(destinations_df), k \in 1..Len(destinations_df) :
                /\ j < k
                /\ destinations_df[j].Name = Recs[i + 1].Name
                /\ destinations_df[k].Name = Recs[i].Name

\* C4: the list holds only candidates of positive MatchScore, its length is
\* min(10, k) for k the number of candidates of positive score, and no
\* positive candidate left out has a greater (MatchScore, PopularityScore)
\* than one returned.
C4_TopTenPositive ==
    IsRecs =>
        LET query == QueryText
            match == [i \in Candidates |->
                         Overlap(query, destinations_df[i].Category)]
            positive == {i \in Candidates : FracLess(Zero, match[i])}
            returned == Returned
            omitted == {i \in positive : destinations_df[i].Name \notin returned}
        IN /\ \A k \in 1..Len(Recs) : FracLess(Zero, Recs[k].MatchScore)
           /\ returned \subseteq {destinations_df[i].Name : i \in positive}
           /\ Cardinality(returned) = Len(Recs)
           /\ Len(Recs) <= 10
           /\ Len(Recs) = Min(10, Cardinality(positive))
           /\ \A i \in omitted : \A k \in 1..Len(Recs) :
                 ~ \/ FracLess(Recs[k].MatchScore, match[i])
                   \/ /\ Recs[k].MatchScore = match[i]
                      /\ FracLess(Recs[k].PopularityScore,
                                  destinations_df[i].PopularityScore)

\* eleven candidates of positive score, ten of them returned
C4_Witness ==
    /\ IsRecs
    /\ Mode = "user"
    /\ Resolved
    /\ Len(destinations_df) > 10
    /\ \A i \in 1..Len(destinations_df) :
          FracLess(Zero, Overlap(QueryText, destinations_df[i].Category))
    /\ Len(Recs) = 10

\* C5: for a name that resolves to S, every entry is another destination D
\* with MatchScore overlap(S.Category, D.Category), S's categories being the
\* query side, and S is not in the list; over the scenario catalog the query
\* "A" returns exactly [B] with MatchScore 0.5.
C5_ByDestination ==
    (IsRecs /\ Mode = "destination" /\ Resolved) =>
        LET S == RowNamed(request.data.destination.v)
        IN /\ \A i \in 1..Len(Recs) :
                 /\ Recs[i].Name # S.Name
                 /\ Recs[i].Name \in {d.Name : d \in Rows}
                 /\ Recs[i].MatchScore =
                        Overlap(S.Category, RowNamed(Recs[i].Name).Category)
           /\ (destinations_df = ScenarioCatalog /\ S.Name = "A") =>
                 /\ Len(Recs) = 1
                 /\ Recs[1].Name = "B"
                 /\ Recs[1].MatchScore = Frac(1, 2)

\* a one-label destination as the query: its neighbour scores 1, although
\* the neighbour's own labels are only half matched
C5_Witness ==
    /\ IsRecs
    /\ Mode = "destination"
    /\ destinations_df = ScenarioCatalog
    /\ request.data.destination.v = "C"
    /\ Len(Recs) = 1
    /\ Recs[1].Name = "B"
    /\ Recs[1].MatchScore = One

\* C6: an identifier that matches nothing gives the empty list from the two
\* recommenders and the 404 response from the two lookups.
C6_NotFound ==
    /\ (IsRecs /\ Mode \in {"destination", "user"} /\ ~Resolved) => Recs = <<>>
    /\ ( /\ response # NoResponse
         /\ request.route = "get_destination_details"
         /\ Truthy(request.name)
         /\ request.name.v \notin {d.Name : d \in Rows} )
       => (response.kind = "error" /\ response.status = 404)
    /\ ( /\ response # NoResponse
         /\ request.route = "get_user_details"
         /\ Truthy(request.id)
         /\ request.id.v \notin {ToString(u.UserID) : u \in Range(users_df)} )
       => (response.kind = "error" /\ response.status = 404)

\* the lookup of a destination name that is not in the table has answered
C6_Witness ==
    /\ request.route = "get_destination_details"
    /\ request.name = JsonStr("Nonexistent")
    /\ response # NoResponse

\* C7: with a State filter every entry has that State and is scored as
\* overlap(preferences, D.Category) among the destinations of that State;
\* without one (absent or empty) every destination is a candidate.
C7_CustomFilter ==
    (IsRecs /\ Mode = "custom") =>
        LET pool == IF request.data.state \in {NoValue, JsonStr("")}
                    THEN Rows
                    ELSE {d \in Rows : d.State = request.data.state.v}
            hits == {d \in pool :
                        FracLess(Zero, Overlap(request.data.preferences.v, d.Category))}
        IN /\ \A i \in 1..Len(Recs) :
                 /\ Recs[i].Name \in {d.Name : d \in hits}
                 /\ Recs[i].State = RowNamed(Recs[i].Name).State
                 /\ Recs[i].MatchScore =
                        Overlap(request.data.preferences.v,
                                RowNamed(Recs[i].Name).Category)
           /\ Cardinality(hits) <= 10 => Returned = {d.Name : d \in hits}
           /\ Cardinality(hits) > 10 => Len(Recs) = 10

\* a filtered query over a table that also holds a matching destination of
\* another State
C7_Witness ==
    /\ IsRecs
    /\ Mode = "custom"
    /\ request.data.state = JsonStr("S1")
    /\ Recs # <<>>
    /\ \E d \in Rows :
          /\ d.State = "S2"
          /\ FracLess(Zero, Overlap(request.data.preferences.v, d.Category))

\* the response the routes give to a request over the tables as they are
Answer(r) ==
    CASE r.route = "get_destination_details" -> get_destination_details(r.name)
      [] r.route = "get_user_details" -> get_user_details(r.id)
      [] r.route = "get_recommendations" -> get_recommendations(r.data)

AnswerNow == Answer(request)

----------------------------------------------------------------------------
(* model_train.py: the offline builder *)

\* sorted() compares texts by code point
CharCode(c) ==
    CASE c = " " -> 32
      [] c = "," -> 44
      [] c = "A" -> 65
      [] c = "B" -> 66
      [] c = "C" -> 67
      [] c = "a" -> 97
      [] c = "b" -> 98
      [] c = "c" -> 99

RECURSIVE TextLess(_, _)
TextLess(s, t) ==
    IF t = <<>> THEN FALSE
    ELSE IF s = <<>> THEN TRUE
    ELSE IF CharCode(Head(s)) # CharCode(Head(t))
         THEN CharCode(Head(s)) < CharCode(Head(t))
         ELSE TextLess(Tail(s), Tail(t))

RECURSIVE sorted(_)
sorted(S) ==
    IF S = {} THEN <<>>
    ELSE LET least == CHOOSE x \in S : \A y \in S \ {x} : TextLess(x, y)
         IN <<least>> \o sorted(S \ {least})

\* lines 30-33: the labels are stripped and not lower-cased
fit_unique_preferences(rows) ==
    sorted(UNION {{strip(pref) : pref \in Range(split(rows[i].Category))} :
                     i \in 1..Len(rows)})

get_category_match_score(dest_category, preference) ==
    LET dest_cats == {lower(strip(cat)) : cat \in Range(split(dest_category))}
    IN IF lower(preference) \in dest_cats THEN One ELSE Zero

fill_category_match_matrix(rows, preferences) ==
    [i \in 1..Len(rows) |->
        [j \in 1..Len(preferences) |->
            get_category_match_score(rows[i].Category, preferences[j])]]

Entries(matrix) == UNION {Range(matrix[i]) : i \in DOMAIN matrix}

MatrixMin(matrix) ==
    CHOOSE x \in Entries(matrix) : \A y \in Entries(matrix) : FracLeq(x, y)

MatrixMax(matrix) ==
    CHOOSE x \in Entries(matrix) : \A y \in Entries(matrix) : FracLeq(y, x)

normalize_matrix(matrix) ==
    LET min_val == MatrixMin(matrix)
        max_val == MatrixMax(matrix)
    IN IF FracLess(Zero, FracSub(max_val, min_val))
       THEN [i \in DOMAIN matrix |->
                [j \in DOMAIN matrix[i] |->
                    FracDiv(FracSub(matrix[i][j], min_val),
                            FracSub(max_val, min_val))]]
       ELSE matrix

RECURSIVE FracSum(_)
FracSum(xs) == IF xs = <<>> THEN Zero ELSE FracAdd(Head(xs), FracSum(Tail(xs)))

\* np.dot(m, m.T)
DotTranspose(m) ==
    [i \in DOMAIN m |->
        [j \in DOMAIN m |->
            FracSum([k \in DOMAIN m[i] |-> FracMul(m[i][k], m[j][k])])]]

\* 0.6 * content_similarity + 0.4 * np.dot(category_match_matrix, category_match_matrix.T)
blend(content, match) ==
    LET cooc == DotTranspose(match)
    IN [i \in DOMAIN content |->
           [j \in DOMAIN content[i] |->
               FracAdd(FracMul(Frac(6, 10), content[i][j]),
                       FracMul(Frac(4, 10), cooc[i][j]))]]

\* the cosine similarities of the TF-IDF vectors of the rows' documents:
\* 1 on the diagonal, symmetric, and between two documents one of the values
\* below (no word shared, some shared, the same words)
CosineValues == {Zero, Frac(1, 2), One}

CosineMatrices(n) ==
    {m \in [1..n -> [1..n -> CosineValues]] :
        \A i \in 1..n : m[i][i] = One /\ \A j \in 1..n : m[i][j] = m[j][i]}

\* Category texts of the builder's destination file
TrainCategoryTexts ==
    { <<"B">>,
      <<"b">>,
      <<"B", ",", "A">>,
      <<" ", "b", ",", " ", "a">> }

TrainRow(i, category) ==
    [Name |-> DestName(i), Category |-> strip(category), State |-> "S1"]

\* after lines 10-26: the table read, Category stripped as a whole
TrainInit ==
    /\ \E n \in 1..MaxTrainDest : \E cats \in [1..n -> TrainCategoryTexts] :
           destinations = [i \in 1..n |-> TrainRow(i, cats[i])]
    /\ unique_preferences = <<>>
    /\ content_similarity = <<>>
    /\ category_match_matrix = <<>>
    /\ hybrid_similarity = <<>>
    /\ models_saved = <<>>
    /\ pc = "loaded"
    /\ AppIdle
    /\ ScoreIdle

\* lines 28-34
FitPreferences ==
    /\ pc = "loaded"
    /\ unique_preferences' = fit_unique_preferences(destinations)
    /\ pc' = "vocabulary"
    /\ UNCHANGED <<destinations, content_similarity, category_match_matrix,
                   hybrid_similarity, models_saved>>
    /\ UNCHANGED appVars
    /\ UNCHANGED scoreVars

\* lines 36-45
ContentSimilarity ==
    /\ pc = "vocabulary"
    /\ content_similarity' \in CosineMatrices(Len(destinations))
    /\ pc' = "content"
    /\ UNCHANGED <<destinations, unique_preferences, category_match_matrix,
                   hybrid_similarity, models_saved>>
    /\ UNCHANGED appVars
    /\ UNCHANGED scoreVars

\* lines 47-56
CategoryMatch ==
    /\ pc = "content"
    /\ category_match_matrix' =
           fill_category_match_matrix(destinations, unique_preferences)
    /\ pc' = "matched"
    /\ UNCHANGED <<destinations, unique_preferences, content_similarity,
                   hybrid_similarity, models_saved>>
    /\ UNCHANGED appVars
    /\ UNCHANGED scoreVars

\* lines 67-68
Normalize ==
    /\ pc = "matched"
    /\ content_similarity' = normalize_matrix(content_similarity)
    /\ category_match_matrix' = normalize_matrix(category_match_matrix)
    /\ pc' = "normalized"
    /\ UNCHANGED <<destinations, unique_preferences, hybrid_similarity, models_saved>>
    /\ UNCHANGED appVars
    /\ UNCHANGED scoreVars

\* lines 70-72
Hybrid ==
    /\ pc = "normalized"
    /\ hybrid_similarity' =
           normalize_matrix(blend(content_similarity, category_match_matrix))
    /\ pc' = "hybrid"
    /\ UNCHANGED <<destinations, unique_preferences, content_similarity,
                   category_match_matrix, models_saved>>
    /\ UNCHANGED appVars
    /\ UNCHANGED scoreVars

\* lines 74-88
Save ==
    /\ pc = "hybrid"
    /\ models_saved' =
           [destination_indices |->
                {<<destinations[i].Name, i - 1>> : i \in 1..Len(destinations)},
            hybrid_similarity |-> hybrid_similarity]
    /\ pc' = "done"
    /\ UNCHANGED <<destinations, unique_preferences, content_similarity,
                   category_match_matrix, hybrid_similarity>>
    /\ UNCHANGED appVars
    /\ UNCHANGED scoreVars

TrainNext ==
    \/ FitPreferences
    \/ ContentSimilarity
    \/ CategoryMatch
    \/ Normalize
    \/ Hybrid
    \/ Save

SpecTrain == TrainInit /\ [][TrainNext]_vars

----------------------------------------------------------------------------
(* Claims about the builder, under SpecTrain *)

InUnitRange(matrix) ==
    \A x \in Entries(matrix) : FracLeq(Zero, x) /\ FracLeq(x, One)

\* C9: every entry of an output of normalize_matrix, and so every entry of
\* the saved hybrid_similarity, lies in [0, 1], for every catalog.
C9_NormalizedInUnitRange ==
    /\ pc \in {"normalized", "hybrid", "done"} =>
          InUnitRange(content_similarity) /\ InUnitRange(category_match_matrix)
    /\ pc \in {"hybrid", "done"} => InUnitRange(hybrid_similarity)

\* C10: the vocabulary is sorted and holds no two labels that are equal once
\* trimmed and lower-cased; CategoryMatch[i][k] is 1 exactly when label k is
\* in destination i's normalized category set; and each normalized label of
\* a destination sets exactly one column of its row.
C10_Vocabulary ==
    pc = "matched" =>
        LET P == Len(unique_preferences)
        IN /\ \A j \in 1..P, k \in 1..P :
                 j < k => TextLess(unique_preferences[j], unique_preferences[k])
           /\ \A j \in 1..P, k \in 1..P :
                 j # k => Normal(unique_preferences[j]) # Normal(unique_preferences[k])
           /\ \A i \in 1..Len(destinations), k \in 1..P :
                 category_match_matrix[i][k] = One
                     <=> unique_preferences[k] \in TokensOf(destinations[i].Category)
           /\ \A i \in 1..Len(destinations) :
                 \A label \in TokensOf(destinations[i].Category) :
                    Cardinality({k \in 1..P :
                        /\ Normal(unique_preferences[k]) = label
                        /\ category_match_matrix[i][k] = One}) = 1

====
